---- MODULE Spec2Model ----
(***************************************************************************)
(* Model of privacy_zones/scripts/zoneServer.py (class ZoneServer).        *)
(*                                                                         *)
(* The node is callback driven: rospy runs the callbacks of the three      *)
(* pose subscriptions and the handlers of the three services on threads    *)
(* of their own, so the handlers below interleave.  A handler is cut into  *)
(* steps at the statements that read or write shared attributes and at the *)
(* blocking points (the RLock and the calls to external services).         *)
(***************************************************************************)
EXTENDS Naturals, Integers, Sequences, FiniteSets, TLC

\* ------------------------------------------------------------------ bounds
MaxPoses == 3       \* pose observations delivered in one behaviour
MaxRequests == 2    \* service requests received in one behaviour
MaxOverlappingPoses == 2  \* pose observations delivered when callbacks overlap
MaxNodePoses == 1    \* pose observations delivered beside service requests
MaxNodeRequests == 2 \* service requests received beside pose observations
MaxLocalizeRequests == 3 \* localize_in_zone requests received in one behaviour
MaxQueuedPoses == 2  \* pose observations received when messages may wait
MaxFairPoses == 1    \* pose observations delivered under fair scheduling
MaxFairRequests == 1 \* service requests received under fair scheduling

\* ------------------------------------------------------- the environment
\* Zone names of the zone file (self.zones) and names a request may carry.
Zones == {"A", "B"}
RequestZones == Zones \cup {"Z"}

\* One thread per subscription (pose, odom, amcl_pose) and two service
\* connections, each able to call any of the services.
PoseThreads == {"pose", "odom", "amcl_pose"}
ServiceThreads == {"s1", "s2"}
Threads == PoseThreads \cup ServiceThreads
NoThread == "none"

Devices == {"d1", "d2"}
ControlIds == {"c1", "c2"}
Vals == {0, 1}

\* The controls peac/get_device_info reports for a device: d1 has c1 and c2,
\* d2 has c2 only.
DeviceControls(d) == IF d = "d1" THEN {"c1", "c2"} ELSE {"c2"}

\* peac/list_locations, in the registry's enumeration order, and the devices
\* peac/list_devices reports for each location: L2 holds a device that no
\* zone configures, L3 holds both configured devices.
Locations == <<"L1", "L2", "L3">>
LocationDevices(l) ==
    IF l = "L1" THEN {"d1"} ELSE IF l = "L2" THEN {"d3"} ELSE {"d1", "d2"}

Descriptor(d, c) == [deviceId |-> d, controlId |-> c, control |-> c]

\* Contents of the zone-controls file the node may have been started with.
\*   CfgRepeat : a controlId repeated within a zone;
\*   CfgShared : one controlId configured under two devices;
\*   CfgMissing: a controlId its device does not report, and no entry for B.
CfgRepeat ==
    [A |-> <<Descriptor("d1", "c1"), Descriptor("d1", "c2"), Descriptor("d1", "c1")>>,
     B |-> <<Descriptor("d2", "c2")>>]
CfgShared ==
    [A |-> <<Descriptor("d1", "c2"), Descriptor("d2", "c2")>>,
     B |-> <<Descriptor("d2", "c2"), Descriptor("d1", "c1"), Descriptor("d2", "c2")>>]
CfgMissing ==
    [A |-> <<Descriptor("d2", "c1")>>]
ZoneControlConfigs == {CfgRepeat, CfgShared, CfgMissing}

NoZones == [exit |-> {}, enter |-> {}]
NotLocalized == [zone |-> "", sent |-> <<>>]

\* Names a localize_in_zone request may carry: the zones, the sentinel of
\* line 121, its lower-case spelling, and a name that is no zone.
LocalizeNames == Zones \cup {"NONE", "none", "Z"}

\* The vertices and the frame of a zone of the zone file (zone.to_msg().zone
\* and the frame_id of its geometry).
ZoneVertices(z) ==
    IF z = "A" THEN <<<<0, 0>>, <<2, 0>>, <<2, 2>>>> ELSE <<<<1, 1>>, <<3, 1>>, <<3, 3>>>>
ZoneFrame(z) == IF z = "A" THEN "map" ELSE "odom"
EmptyCache == [c \in {} |-> 0]

VARIABLES
    zone_controls,      \* self.zone_controls
    current_zones,      \* self.current_zones
    previous_zones,     \* self.previous_zones
    list_devices_lock,  \* self.list_devices_lock: [owner, count]
    registry,           \* numVal of each control of each device, at peac
    pc,                 \* per thread: the statement it is at
    op,                 \* per thread: the callback or service it runs
    within_zones,       \* pose_cb: within_zones
    entered_zones,      \* check_transition: entered_zones
    exited_zones,       \* check_transition: exited_zones
    todo,               \* zones the running for loop has still to visit
    phase,              \* check_transition: "exit" or "enter" loop
    req_zone,           \* handle_list_devices: req.zone
    idx,                \* handle_list_devices: position in the zone's controls
    control_cache,      \* handle_list_devices: control_cache
    zcs,                \* handle_list_devices: zcs
    zone,               \* get_peac_locations: zone
    device_ids,         \* get_peac_locations: device_ids
    resp,               \* get_zone_locations: resp, as <<zone, location>> pairs
    inbox,              \* per subscription: messages received while its
                        \* callback is still running, oldest first
    \* history
    poses,              \* memberships of the poses delivered, in arrival order
    poseStatus,         \* per delivered pose: running / done / dropped, or
                        \* failed / keyerror when its callback raised
    poseOf,             \* per thread: index in poses of the pose it handles
    oldCurrent,         \* per delivered pose: current_zones read at line 76
    eventLog,           \* messages published on 'transition', in order
    calls,              \* per thread: get_device_info calls of the
                        \* handle_list_devices invocation it is in
    listed,             \* per thread: the zone of its latest get_devices_in_zone
                        \* request, the threads whose latest such request
                        \* was in progress together with it, and the
                        \* get_device_info calls that request made
    localized,          \* per thread: the zone name of its latest
                        \* localize_in_zone request and the localization
                        \* requests it sent
    outcome,            \* per thread: how its latest service request ended
    nRequests           \* service requests received

vars == <<zone_controls, current_zones, previous_zones, list_devices_lock,
          registry, pc, op, within_zones, entered_zones, exited_zones, todo,
          phase, req_zone, idx, control_cache, zcs, zone, device_ids, resp, poses, poseStatus, poseOf, oldCurrent,
          eventLog, calls, listed, outcome, nRequests, inbox, localized>>

hldVars == <<req_zone, idx, control_cache, zcs>>
gplVars == <<zone, device_ids>>
histVars == <<poses, poseStatus, poseOf, oldCurrent, eventLog>>

\* ------------------------------------------------------------- helpers
\* self.zone_controls.get(name, [])
ZoneControlsGet(name) ==
    IF name \in DOMAIN zone_controls THEN zone_controls[name] ELSE <<>>

\* An acquire that never blocks.
AlwaysAcquire(t) == TRUE

\* RLock.acquire by thread t, when it does not block.
CanAcquire(t) == list_devices_lock.owner \in {NoThread, t}
Acquired(t) == [owner |-> t, count |-> list_devices_lock.count + 1]
\* A release that leaves the lock with its owner.
StillOwned == list_devices_lock

\* RLock.release by its owner.
Released ==
    IF list_devices_lock.count = 1
    THEN [owner |-> NoThread, count |-> 0]
    ELSE [owner |-> list_devices_lock.owner, count |-> list_devices_lock.count - 1]

\* The cache of the handler's previous invocation, kept.
StaleCache(t) == control_cache[t]

\* control_cache = {} at the head of handle_list_devices.
FreshCache(t) == EmptyCache

\* A lookup that never finds the control.
AlwaysMiss(t, c) == TRUE

\* control['controlId'] not in control_cache
CacheMiss(t, c) == c \notin DOMAIN control_cache[t]

\* for cc in response.controls: control_cache[cc.controlId] = cc
CacheFill(cache, response) ==
    [c \in DOMAIN cache \cup DOMAIN response |->
        IF c \in DOMAIN response THEN response[c] ELSE cache[c]]

\* ZoneControl(zone=req.zone, controlId=..., deviceId=..., name=..., numVal=...)
ZoneControl(z, control, cache) ==
    [zone |-> z, controlId |-> control.controlId, deviceId |-> control.deviceId,
     name |-> control.control, numVal |-> cache[control.controlId]]

\* Every zone of current_zones counts as entered.
EnteredAll(cur, prev) == cur

\* set(self.current_zones) - set(self.previous_zones)
EnteredZones(cur, prev) == cur \ prev
\* set(self.previous_zones) - set(self.current_zones)
ExitedZones(cur, prev) == prev \ cur

\* Lines 99-107 of get_peac_locations: the locations of list_locations, in
\* its order, that hold one of device_ids.
RECURSIVE MatchLoop(_, _, _)
MatchLoop(ids, i, matched) ==
    IF i > Len(Locations) THEN matched
    ELSE MatchLoop(ids, i + 1,
            IF ids \cap LocationDevices(Locations[i]) # {}
            THEN Append(matched, Locations[i]) ELSE matched)
\* Every location of the registry, whatever its devices.
AllLocations(ids) == Locations

\* get_peac_locations, lines 98-107.
MatchedLocations(ids) == MatchLoop(ids, 1, <<>>)

\* A test that lets an empty membership through.
AlwaysTruthy(zs) == TRUE

\* if within_zones:
Truthy(zs) == zs # {}

\* ---------------------------------------------------------------- Init
\* The node after __init__, beside a registry with the values reg.
InitNode(reg) ==
    /\ zone_controls \in ZoneControlConfigs
    /\ current_zones = {}
    /\ previous_zones = {}
    /\ list_devices_lock = [owner |-> NoThread, count |-> 0]
    /\ registry = reg
    /\ pc = [t \in Threads |-> "idle"]
    /\ op = [t \in Threads |-> "none"]
    /\ within_zones = [t \in Threads |-> {}]
    /\ entered_zones = [t \in Threads |-> {}]
    /\ exited_zones = [t \in Threads |-> {}]
    /\ todo = [t \in Threads |-> NoZones]
    /\ phase = [t \in Threads |-> "none"]
    /\ req_zone = [t \in Threads |-> "none"]
    /\ idx = [t \in Threads |-> 0]
    /\ control_cache = [t \in Threads |-> EmptyCache]
    /\ zcs = [t \in Threads |-> <<>>]
    /\ zone = [t \in Threads |-> "none"]
    /\ device_ids = [t \in Threads |-> {}]
    /\ resp = [t \in Threads |-> <<>>]
    /\ inbox = [t \in PoseThreads |-> <<>>]
    /\ localized = [t \in Threads |-> NotLocalized]
    /\ poses = <<>>
    /\ poseStatus = <<>>
    /\ poseOf = [t \in Threads |-> 0]
    /\ oldCurrent = <<>>
    /\ eventLog = <<>>
    /\ calls = [t \in Threads |-> <<>>]
    /\ listed = [t \in Threads |-> [zone |-> "none", with |-> {}, calls |-> <<>>]]
    /\ outcome = [t \in Threads |-> "none"]
    /\ nRequests = 0

\* The values the registry may hold for the controls of the devices.
RegistryStates ==
    {r \in [Devices -> UNION {[DeviceControls(d) -> Vals] : d \in Devices}] :
        \A d \in Devices : DOMAIN r[d] = DeviceControls(d)}

Init == InitNode([d \in Devices |-> [c \in DeviceControls(d) |-> 0]])

\* The node started beside a registry that holds any values.
InitAnyRegistry == \E reg \in RegistryStates : InitNode(reg)

\* ------------------------------------------------- leaving a handler
\* The handler of thread t returns (status "done" / "ok") or an exception
\* leaves it (status "failed" / "error"): its frame's locals are gone and the
\* thread waits for the next message; log is the list of get_device_info
\* calls of its last handle_list_devices invocation, kept when the request
\* was a get_devices_in_zone.  The callers set the shared attributes, the
\* lock and the history they touch.
Finish(t, status, log) ==
    /\ pc' = [pc EXCEPT ![t] = "idle"]
    /\ op' = [op EXCEPT ![t] = "none"]
    /\ within_zones' = [within_zones EXCEPT ![t] = {}]
    /\ entered_zones' = [entered_zones EXCEPT ![t] = {}]
    /\ exited_zones' = [exited_zones EXCEPT ![t] = {}]
    /\ todo' = [todo EXCEPT ![t] = NoZones]
    /\ phase' = [phase EXCEPT ![t] = "none"]
    /\ req_zone' = [req_zone EXCEPT ![t] = "none"]
    /\ idx' = [idx EXCEPT ![t] = 0]
    /\ control_cache' = [control_cache EXCEPT ![t] = EmptyCache]
    /\ zcs' = [zcs EXCEPT ![t] = <<>>]
    /\ zone' = [zone EXCEPT ![t] = "none"]
    /\ device_ids' = [device_ids EXCEPT ![t] = {}]
    /\ resp' = [resp EXCEPT ![t] = <<>>]
    /\ poseOf' = [poseOf EXCEPT ![t] = 0]
    /\ calls' = [calls EXCEPT ![t] = <<>>]
    /\ listed' = IF op[t] = "list" THEN [listed EXCEPT ![t].calls = log] ELSE listed
    /\ IF op[t] = "pose"
       THEN /\ poseStatus' = [poseStatus EXCEPT ![poseOf[t]] = status]
            /\ outcome' = outcome
       ELSE /\ poseStatus' = poseStatus
            /\ outcome' = [outcome EXCEPT ![t] = status]

\* An exception that takes current_zones back to previous_zones.
RaiseRollback(t) ==
    /\ Finish(t, IF op[t] = "pose" THEN "failed" ELSE "error", calls[t])
    /\ current_zones' = previous_zones
    /\ UNCHANGED <<zone_controls, inbox, localized, previous_zones,
                   list_devices_lock, registry, poses, oldCurrent, eventLog,
                   nRequests>>

\* An exception raised outside the with block.
Raise(t) ==
    /\ Finish(t, IF op[t] = "pose" THEN "failed" ELSE "error", calls[t])
    /\ UNCHANGED <<zone_controls, inbox, localized, current_zones, previous_zones, list_devices_lock,
                   registry, poses, oldCurrent, eventLog, nRequests>>

\* How a pose callback ends on an exception of handle_list_devices whose
\* calls are log: "failed" when get_device_info raised (line 58), "keyerror"
\* when control_cache lacks the controlId (line 66).
Raised(log) ==
    IF log[Len(log)].status = "failed" THEN "failed" ELSE "keyerror"

\* An exception that passes the with block and leaves the lock as it is.
RaiseKeepingLock(t, log) ==
    /\ Finish(t, IF op[t] = "pose" THEN Raised(log) ELSE "error", log)
    /\ UNCHANGED <<zone_controls, inbox, localized, current_zones, previous_zones,
                   list_devices_lock, registry, poses, oldCurrent, eventLog,
                   nRequests>>

\* An exception raised inside the with block of handle_list_devices: the
\* context manager releases the lock as the exception passes.
RaiseInLock(t, log) ==
    /\ Finish(t, IF op[t] = "pose" THEN Raised(log) ELSE "error", log)
    /\ list_devices_lock' = Released
    /\ UNCHANGED <<zone_controls, inbox, localized, current_zones, previous_zones, registry,
                   poses, oldCurrent, eventLog, nRequests>>

\* ---------------------------------------------------- calling a helper
\* handle_list_devices(DevicesInZoneRequest(name)) is entered by thread t:
\* it goes to the with statement, its call log starts empty.
EnterHld(t, name) ==
    /\ req_zone' = [req_zone EXCEPT ![t] = name]
    /\ calls' = [calls EXCEPT ![t] = <<>>]

\* get_peac_locations(z), lines 93-96: name = z, then handle_list_devices.
EnterGpl(t, z) ==
    /\ zone' = [zone EXCEPT ![t] = z]
    /\ EnterHld(t, z)

\* ------------------------------------------------------------ pose_cb
\* The callback goes on with a pose that transformPose did not return.
IgnoresTransformFailure(m, tf_ok) == Truthy(m)

\* Lines 72-75: transformPose returned (an exception of line 72 ends the
\* callback) and within_zones is truthy.
ReachesLine76(m, tf_ok) == tf_ok /\ Truthy(m)

\* Lines 71-75, the callback of subscription thread t begins on a message.
\* m is self.zones.in_which(pt); tf_ok is whether transformPose returned.
PoseCbStart(t, m, tf_ok) ==
    /\ pc[t] = "idle"
    /\ poses' = Append(poses, m)
    /\ oldCurrent' = Append(oldCurrent, {})
    /\ poseStatus' = Append(poseStatus,
          IF ~tf_ok THEN "dropped" ELSE IF Truthy(m) THEN "running" ELSE "done")
    /\ IF ReachesLine76(m, tf_ok)
       THEN /\ pc' = [pc EXCEPT ![t] = "l76"]
            /\ op' = [op EXCEPT ![t] = "pose"]
            /\ within_zones' = [within_zones EXCEPT ![t] = m]
            /\ poseOf' = [poseOf EXCEPT ![t] = Len(poses) + 1]
       ELSE UNCHANGED <<pc, op, within_zones, poseOf>>
    /\ UNCHANGED <<zone_controls, localized, current_zones, previous_zones,
                   list_devices_lock, registry, entered_zones, exited_zones, todo,
                   phase, hldVars, gplVars, resp, eventLog, calls, listed, outcome,
                   nRequests>>

\* A message is received on subscription t while no callback of it runs and
\* none waits: the callback begins on it at once.
PoseArrives(t, m, tf_ok) ==
    /\ inbox[t] = <<>>
    /\ PoseCbStart(t, m, tf_ok)
    /\ UNCHANGED inbox

\* A message is received on subscription t while its callback runs: rospy
\* calls the callbacks of a subscription one after the other on the thread
\* that receives its messages, so the message waits.
PoseQueued(t, m) ==
    /\ pc[t] # "idle"
    /\ inbox' = [inbox EXCEPT ![t] = Append(@, m)]
    /\ UNCHANGED <<zone_controls, localized, current_zones, previous_zones,
                   list_devices_lock, registry, pc, op, within_zones,
                   entered_zones, exited_zones, todo, phase, hldVars, gplVars,
                   resp, histVars, calls, listed, outcome, nRequests>>

\* The callback of subscription t has returned and begins on the message
\* that waited longest.
PoseTaken(t) ==
    /\ inbox[t] # <<>>
    /\ inbox' = [inbox EXCEPT ![t] = Tail(@)]
    /\ \E tf_ok \in BOOLEAN : PoseCbStart(t, Head(inbox[t]), tf_ok)

\* Subscriber('pose', PoseStamped, self.pose_cb)
PoseCb == \E m \in SUBSET Zones, tf_ok \in BOOLEAN : PoseArrives("pose", m, tf_ok)
\* odom_cb: wraps the odometry sample's pose and calls pose_cb
OdomCb == \E m \in SUBSET Zones, tf_ok \in BOOLEAN : PoseArrives("odom", m, tf_ok)
\* pose_with_cov_cb: wraps the pose and calls pose_cb
PoseWithCovCb ==
    \E m \in SUBSET Zones, tf_ok \in BOOLEAN : PoseArrives("amcl_pose", m, tf_ok)

\* Line 76: self.previous_zones = self.current_zones
SetPrevious(t) ==
    /\ pc[t] = "l76"
    /\ previous_zones' = current_zones
    /\ oldCurrent' = [oldCurrent EXCEPT ![poseOf[t]] = current_zones]
    /\ pc' = [pc EXCEPT ![t] = "l77"]
    /\ UNCHANGED <<zone_controls, inbox, localized, current_zones, list_devices_lock, registry, op,
                   within_zones, entered_zones, exited_zones, todo, phase, hldVars,
                   gplVars, resp, poses, poseStatus, poseOf, eventLog, calls,
                   listed, outcome, nRequests>>

\* Line 77: self.current_zones = within_zones
SetCurrent(t) ==
    /\ pc[t] = "l77"
    /\ current_zones' = within_zones[t]
    /\ pc' = [pc EXCEPT ![t] = "l137"]
    /\ UNCHANGED <<zone_controls, inbox, localized, previous_zones, list_devices_lock, registry, op,
                   within_zones, entered_zones, exited_zones, todo, phase, hldVars,
                   gplVars, resp, histVars, calls, listed, outcome, nRequests>>

\* ---------------------------------------------------- check_transition
\* Lines 137-138: the test of self.current_zones and entered_zones.
CtEntered(t) ==
    /\ pc[t] = "l137"
    /\ IF Truthy(current_zones)
       THEN /\ entered_zones' =
                 [entered_zones EXCEPT ![t] = EnteredZones(current_zones, previous_zones)]
            /\ pc' = [pc EXCEPT ![t] = "l139"]
            /\ UNCHANGED <<op, within_zones, exited_zones, todo, phase, hldVars,
                           gplVars, resp, poseStatus, poseOf, calls, listed,
                           outcome>>
       ELSE Finish(t, "done", calls[t])
    /\ UNCHANGED <<zone_controls, inbox, localized, current_zones, previous_zones, list_devices_lock,
                   registry, poses, oldCurrent, eventLog, nRequests>>

\* Line 139: exited_zones.  The loops of lines 140 and 147 are next.
CtExited(t) ==
    /\ pc[t] = "l139"
    /\ exited_zones' =
          [exited_zones EXCEPT ![t] = ExitedZones(current_zones, previous_zones)]
    /\ todo' = [todo EXCEPT ![t] =
          [exit |-> ExitedZones(current_zones, previous_zones),
           enter |-> entered_zones[t]]]
    /\ pc' = [pc EXCEPT ![t] = "loop"]
    /\ UNCHANGED <<zone_controls, inbox, localized, current_zones, previous_zones, list_devices_lock,
                   registry, op, within_zones, entered_zones, phase, hldVars,
                   gplVars, resp, histVars, calls, listed, outcome, nRequests>>

\* The two loops run as one, over exited and entered zones in any order.
CtNextZoneAnyOrder(t) ==
    /\ pc[t] = "loop"
    /\ \/ \E z \in todo[t].exit :
             /\ todo' = [todo EXCEPT ![t].exit = @ \ {z}]
             /\ phase' = [phase EXCEPT ![t] = "exit"]
             /\ EnterGpl(t, z)
       \/ \E z \in todo[t].enter :
             /\ todo' = [todo EXCEPT ![t].enter = @ \ {z}]
             /\ phase' = [phase EXCEPT ![t] = "enter"]
             /\ EnterGpl(t, z)
    /\ pc' = [pc EXCEPT ![t] = "l53"]
    /\ UNCHANGED <<zone_controls, inbox, localized, current_zones, previous_zones, list_devices_lock,
                   registry, op, within_zones, entered_zones, exited_zones,
                   idx, control_cache, zcs, device_ids,
                   resp, histVars, listed, outcome, nRequests>>

\* Lines 140 and 147, one iteration: the next zone of the exit loop or, once
\* that loop is exhausted, of the enter loop goes to get_peac_locations
\* (lines 144, 151).  A set is iterated in no particular order.
CtNextZone(t) ==
    /\ pc[t] = "loop"
    /\ IF todo[t].exit # {}
       THEN \E z \in todo[t].exit :
               /\ todo' = [todo EXCEPT ![t].exit = @ \ {z}]
               /\ phase' = [phase EXCEPT ![t] = "exit"]
               /\ EnterGpl(t, z)
       ELSE \E z \in todo[t].enter :
               /\ todo' = [todo EXCEPT ![t].enter = @ \ {z}]
               /\ phase' = [phase EXCEPT ![t] = "enter"]
               /\ EnterGpl(t, z)
    /\ pc' = [pc EXCEPT ![t] = "l53"]
    /\ UNCHANGED <<zone_controls, inbox, localized, current_zones, previous_zones, list_devices_lock,
                   registry, op, within_zones, entered_zones, exited_zones,
                   idx, control_cache, zcs, device_ids, resp, histVars, listed, outcome, nRequests>>

\* Both loops are exhausted: check_transition and pose_cb return.
CtReturn(t) ==
    /\ pc[t] = "loop"
    /\ todo[t].exit = {}
    /\ todo[t].enter = {}
    /\ Finish(t, "done", calls[t])
    /\ UNCHANGED <<zone_controls, inbox, localized, current_zones, previous_zones, list_devices_lock,
                   registry, poses, oldCurrent, eventLog, nRequests>>

\* Transition(action=..., zone=zone.to_msg(), peac_locations=...)
Transition(t, locations) ==
    [action |-> IF phase[t] = "exit" THEN "EXIT" ELSE "ENTER",
     zone |-> zone[t],
     peac_locations |-> locations,
     pose |-> poseOf[t]]

\* Lines 98-107 called from lines 144 and 151, then lines 146 and 153:
\* list_locations and every list_devices answer, and the Transition message
\* with the matched locations is published.
CtPublish(t) ==
    /\ pc[t] = "l98"
    /\ op[t] = "pose"
    /\ eventLog' = Append(eventLog, Transition(t, MatchedLocations(device_ids[t])))
    /\ pc' = [pc EXCEPT ![t] = "loop"]
    /\ zone' = [zone EXCEPT ![t] = "none"]
    /\ device_ids' = [device_ids EXCEPT ![t] = {}]
    /\ UNCHANGED <<zone_controls, inbox, localized, current_zones, previous_zones, list_devices_lock,
                   registry, op, within_zones, entered_zones, exited_zones, todo,
                   phase, hldVars, resp, poses, poseStatus,
                   poseOf, oldCurrent, calls, listed, outcome, nRequests>>

\* -------------------------------------------------- handle_list_devices
\* Lines 53-55: the with statement acquires the lock (blocking while another
\* thread owns it), then control_cache = {} and zcs = [].
HldAcquire(t) ==
    /\ pc[t] = "l53"
    /\ CanAcquire(t)
    /\ list_devices_lock' = Acquired(t)
    /\ control_cache' = [control_cache EXCEPT ![t] = FreshCache(t)]
    /\ zcs' = [zcs EXCEPT ![t] = <<>>]
    /\ idx' = [idx EXCEPT ![t] = 1]
    /\ pc' = [pc EXCEPT ![t] = "l56"]
    /\ UNCHANGED <<zone_controls, inbox, localized, current_zones, previous_zones, registry, op,
                   within_zones, entered_zones, exited_zones, todo, phase, req_zone,
                   gplVars, resp, histVars, calls, listed, outcome, nRequests>>

\* Lines 56-58, a control whose controlId is not cached: get_device_info is
\* called with the control's deviceId and the thread waits for the answer.
HldCallDeviceInfo(t) ==
    /\ pc[t] = "l56"
    /\ idx[t] <= Len(ZoneControlsGet(req_zone[t]))
    /\ LET control == ZoneControlsGet(req_zone[t])[idx[t]] IN
          /\ CacheMiss(t, control.controlId)
          /\ calls' = [calls EXCEPT ![t] = Append(@,
                [controlId |-> control.controlId, deviceId |-> control.deviceId,
                 status |-> "pending", controls |-> EmptyCache])]
    /\ pc' = [pc EXCEPT ![t] = "l58"]
    /\ UNCHANGED <<zone_controls, inbox, localized, current_zones, previous_zones, list_devices_lock,
                   registry, op, within_zones, entered_zones, exited_zones, todo,
                   phase, hldVars, gplVars, resp, histVars, listed, outcome,
                   nRequests>>

\* Lines 56-57 and 61-67, a control whose controlId is cached: the ZoneControl
\* is appended with the cached numVal.
HldCached(t) ==
    /\ pc[t] = "l56"
    /\ idx[t] <= Len(ZoneControlsGet(req_zone[t]))
    /\ LET control == ZoneControlsGet(req_zone[t])[idx[t]] IN
          /\ ~CacheMiss(t, control.controlId)
          /\ zcs' = [zcs EXCEPT ![t] =
                Append(@, ZoneControl(req_zone[t], control, control_cache[t]))]
    /\ idx' = [idx EXCEPT ![t] = @ + 1]
    /\ UNCHANGED <<zone_controls, inbox, localized, current_zones, previous_zones, list_devices_lock,
                   registry, pc, op, within_zones, entered_zones, exited_zones, todo,
                   phase, req_zone, control_cache, gplVars, resp, histVars, calls,
                   listed, outcome, nRequests>>

\* Lines 58-67: get_device_info answers.  Its controls are stored in the cache
\* and the ZoneControl is appended; control_cache[control['controlId']] raises
\* KeyError when the device did not report the control.
HldDeviceInfoReturns(t) ==
    /\ pc[t] = "l58"
    /\ LET control == ZoneControlsGet(req_zone[t])[idx[t]]
           response == registry[control.deviceId]
           cache == CacheFill(control_cache[t], response)
           answered == [calls[t] EXCEPT ![Len(calls[t])] =
                          [@ EXCEPT !.status = "ok", !.controls = response]]
       IN  IF control.controlId \in DOMAIN cache
           THEN /\ control_cache' = [control_cache EXCEPT ![t] = cache]
                /\ zcs' = [zcs EXCEPT ![t] =
                      Append(@, ZoneControl(req_zone[t], control, cache))]
                /\ idx' = [idx EXCEPT ![t] = @ + 1]
                /\ calls' = [calls EXCEPT ![t] = answered]
                /\ pc' = [pc EXCEPT ![t] = "l56"]
                /\ UNCHANGED <<zone_controls, inbox, localized, current_zones, previous_zones,
                               list_devices_lock, registry, op, within_zones,
                               entered_zones, exited_zones, todo, phase, req_zone,
                               gplVars, resp, histVars, listed, outcome, nRequests>>
           ELSE RaiseInLock(t, answered)

\* Line 58: get_device_info raises (rospy.ServiceException).
HldDeviceInfoFails(t) ==
    /\ pc[t] = "l58"
    /\ RaiseInLock(t, [calls[t] EXCEPT ![Len(calls[t])] =
                          [@ EXCEPT !.status = "failed"]])

\* Line 68 of a get_devices_in_zone request: the lock is released and the
\* response goes to the client.
HldRespond(t) ==
    /\ pc[t] = "l56"
    /\ idx[t] > Len(ZoneControlsGet(req_zone[t]))
    /\ op[t] = "list"
    /\ list_devices_lock' = Released
    /\ Finish(t, "ok", calls[t])
    /\ UNCHANGED <<zone_controls, inbox, localized, current_zones, previous_zones, registry,
                   poses, oldCurrent, eventLog, nRequests>>

\* Line 68 when called from get_peac_locations: the lock is released, and
\* line 97 collects device_ids from the returned controls.  control_cache
\* keeps the dict of the returned frame until line 54 of the handler's next
\* invocation binds a new one.
HldReturnToGpl(t) ==
    /\ pc[t] = "l56"
    /\ idx[t] > Len(ZoneControlsGet(req_zone[t]))
    /\ op[t] # "list"
    /\ list_devices_lock' = Released
    /\ device_ids' = [device_ids EXCEPT ![t] = {zcs[t][i].deviceId : i \in DOMAIN zcs[t]}]
    /\ req_zone' = [req_zone EXCEPT ![t] = "none"]
    /\ idx' = [idx EXCEPT ![t] = 0]
    /\ zcs' = [zcs EXCEPT ![t] = <<>>]
    /\ pc' = [pc EXCEPT ![t] = "l98"]
    /\ UNCHANGED <<zone_controls, inbox, localized, current_zones, previous_zones, registry, op,
                   within_zones, entered_zones, exited_zones, todo, phase,
                   control_cache, zone, resp, histVars,
                   calls, listed, outcome, nRequests>>

\* --------------------------------------------------- get_peac_locations
\* Lines 98 and 101: list_locations or a list_devices raises.
GplRegistryFails(t) ==
    /\ pc[t] = "l98"
    /\ Raise(t)

\* Lines 98-107 called from line 112, then lines 113-115: one
\* (zone, location) pair is appended per matched location.
ZlAppend(t) ==
    /\ pc[t] = "l98"
    /\ op[t] = "zoneloc"
    /\ LET locs == MatchedLocations(device_ids[t]) IN
          resp' = [resp EXCEPT ![t] = @ \o [i \in DOMAIN locs |-> <<zone[t], locs[i]>>]]
    /\ zone' = [zone EXCEPT ![t] = "none"]
    /\ device_ids' = [device_ids EXCEPT ![t] = {}]
    /\ pc' = [pc EXCEPT ![t] = "l111"]
    /\ UNCHANGED <<zone_controls, inbox, localized, current_zones, previous_zones, list_devices_lock,
                   registry, op, within_zones, entered_zones, exited_zones, todo,
                   phase, hldVars, histVars, calls, listed,
                   outcome, nRequests>>

\* ------------------------------------------------------------- services
\* Service('get_devices_in_zone', ...): a request for zone z reaches thread t.
ListDevicesRequest(t, z) ==
    /\ pc[t] = "idle"
    /\ nRequests' = nRequests + 1
    /\ op' = [op EXCEPT ![t] = "list"]
    /\ outcome' = [outcome EXCEPT ![t] = "none"]
    /\ EnterHld(t, z)
    /\ pc' = [pc EXCEPT ![t] = "l53"]
    /\ listed' = [u \in Threads |->
          IF u = t THEN [zone |-> z, with |-> {v \in Threads \ {t} : op[v] = "list"},
                         calls |-> <<>>]
          ELSE IF op[u] = "list" THEN [listed[u] EXCEPT !.with = @ \cup {t}]
          ELSE [listed[u] EXCEPT !.with = @ \ {t}]]
    /\ UNCHANGED <<zone_controls, inbox, localized, current_zones, previous_zones, list_devices_lock,
                   registry, within_zones, entered_zones, exited_zones, todo, phase,
                   idx, control_cache, zcs, gplVars, resp, histVars>>

\* Service('get_zone_locations', ...), line 110.
ZoneLocationsRequest(t) ==
    /\ pc[t] = "idle"
    /\ nRequests' = nRequests + 1
    /\ op' = [op EXCEPT ![t] = "zoneloc"]
    /\ outcome' = [outcome EXCEPT ![t] = "none"]
    /\ todo' = [todo EXCEPT ![t] = [exit |-> {}, enter |-> Zones]]
    /\ pc' = [pc EXCEPT ![t] = "l111"]
    /\ listed' = [u \in Threads |->
          IF u = t THEN [zone |-> "none", with |-> {}, calls |-> <<>>]
          ELSE [listed[u] EXCEPT !.with = @ \ {t}]]
    /\ UNCHANGED <<zone_controls, inbox, localized, current_zones, previous_zones, list_devices_lock,
                   registry, within_zones, entered_zones, exited_zones, phase,
                   hldVars, gplVars, resp, histVars, calls>>

\* Lines 111-112, one iteration of the loop over self.zones.
ZlNextZone(t) ==
    /\ pc[t] = "l111"
    /\ \E z \in todo[t].enter :
          /\ todo' = [todo EXCEPT ![t].enter = @ \ {z}]
          /\ EnterGpl(t, z)
    /\ pc' = [pc EXCEPT ![t] = "l53"]
    /\ UNCHANGED <<zone_controls, inbox, localized, current_zones, previous_zones, list_devices_lock,
                   registry, op, within_zones, entered_zones, exited_zones, phase,
                   idx, control_cache, zcs, device_ids, resp, histVars, listed, outcome, nRequests>>

\* Line 116: the response goes to the client.
ZlRespond(t) ==
    /\ pc[t] = "l111"
    /\ todo[t].enter = {}
    /\ Finish(t, "ok", calls[t])
    /\ UNCHANGED <<zone_controls, inbox, localized, current_zones, previous_zones, list_devices_lock,
                   registry, poses, oldCurrent, eventLog, nRequests>>

\* ----------------------------------------------------- localize_in_zone
\* The sentinel spelled in lower case.
IsNoZoneLower(name) == name = "none"

\* Line 121: zone_req.zone == 'NONE'
IsNoZone(name) == name = "NONE"

\* Line 124: the request of self.global_localization().
GlobalRequest == [kind |-> "global", polygon |-> <<>>, frame_id |-> ""]

\* Lines 126-131: the request of self.polygon_localization; req.poly is the
\* PolygonStamped that lines 130 and 131 fill in.
PolygonRequest(name) ==
    [kind |-> "polygon", polygon |-> ZoneVertices(name), frame_id |-> ZoneFrame(name)]

\* Service('localize_in_zone', ...), lines 120-132 up to the call of the
\* localization service: global_localization for the sentinel,
\* polygon_localization for a zone; self.zones[name] raises KeyError for
\* any other name and the request fails.
LocalizeRequest(t, name) ==
    /\ pc[t] = "idle"
    /\ nRequests' = nRequests + 1
    /\ listed' = [u \in Threads |->
          IF u = t THEN [zone |-> "none", with |-> {}, calls |-> <<>>]
          ELSE [listed[u] EXCEPT !.with = @ \ {t}]]
    /\ IF IsNoZone(name)
       THEN /\ localized' = [localized EXCEPT ![t] =
                  [zone |-> name, sent |-> <<GlobalRequest>>]]
            /\ pc' = [pc EXCEPT ![t] = "l124"]
            /\ op' = [op EXCEPT ![t] = "localize"]
            /\ outcome' = [outcome EXCEPT ![t] = "none"]
       ELSE IF name \in Zones
       THEN /\ localized' = [localized EXCEPT ![t] =
                  [zone |-> name, sent |-> <<PolygonRequest(name)>>]]
            /\ pc' = [pc EXCEPT ![t] = "l132"]
            /\ op' = [op EXCEPT ![t] = "localize"]
            /\ outcome' = [outcome EXCEPT ![t] = "none"]
       ELSE /\ localized' = [localized EXCEPT ![t] = [zone |-> name, sent |-> <<>>]]
            /\ outcome' = [outcome EXCEPT ![t] = "error"]
            /\ UNCHANGED <<pc, op>>
    /\ UNCHANGED <<zone_controls, inbox, current_zones, previous_zones,
                   list_devices_lock, registry, within_zones, entered_zones,
                   exited_zones, todo, phase, hldVars, gplVars, resp, histVars,
                   calls>>

\* Lines 124 or 132 return, line 133: the acknowledgement goes to the client.
LocalizeReturns(t) ==
    /\ pc[t] \in {"l124", "l132"}
    /\ Finish(t, "ok", calls[t])
    /\ UNCHANGED <<zone_controls, inbox, localized, current_zones, previous_zones,
                   list_devices_lock, registry, poses, oldCurrent, eventLog,
                   nRequests>>

\* Lines 124 or 132: the localization service raises.
LocalizeFails(t) ==
    /\ pc[t] \in {"l124", "l132"}
    /\ Raise(t)

\* --------------------------------------------------------- peac bridge
\* The device registry changes the numVal of a control.
RegistryUpdate(d, c, v) ==
    /\ registry[d][c] # v
    /\ registry' = [registry EXCEPT ![d][c] = v]
    /\ UNCHANGED <<zone_controls, inbox, localized, current_zones, previous_zones, list_devices_lock,
                   pc, op, within_zones, entered_zones, exited_zones, todo, phase,
                   hldVars, gplVars, resp, histVars, calls, listed, outcome,
                   nRequests>>

\* --------------------------------------------------------------- Next
\* The steps of handle_list_devices and get_peac_locations, whoever called.
HelperStep(t) ==
    \/ HldAcquire(t)
    \/ HldCallDeviceInfo(t)
    \/ HldCached(t)
    \/ HldDeviceInfoReturns(t)
    \/ HldDeviceInfoFails(t)
    \/ HldReturnToGpl(t)
    \/ GplRegistryFails(t)

\* The steps of a pose callback once its message is delivered.
PoseStep(t) ==
    \/ SetPrevious(t)
    \/ SetCurrent(t)
    \/ CtEntered(t)
    \/ CtExited(t)
    \/ CtNextZone(t)
    \/ CtReturn(t)
    \/ CtPublish(t)

\* A message is delivered on one of the three subscriptions.
PoseDelivery ==
    \/ PoseCb
    \/ OdomCb
    \/ PoseWithCovCb

\* The steps of a service handler once its request is received.
ServiceStep(t) ==
    \/ HldRespond(t)
    \/ ZlNextZone(t)
    \/ ZlAppend(t)
    \/ ZlRespond(t)

ServiceRequest(t) ==
    \/ \E z \in RequestZones : ListDevicesRequest(t, z)
    \/ ZoneLocationsRequest(t)

RegistryChange ==
    \E d \in Devices : \E c \in DeviceControls(d), v \in Vals : RegistryUpdate(d, c, v)

\* The node: callbacks and handlers on their threads, the registry's values
\* staying as they are.
Next ==
    \/ Len(poses) < MaxNodePoses /\ PoseDelivery
    \/ \E t \in PoseThreads : PoseStep(t)
    \/ \E t \in ServiceThreads : nRequests < MaxNodeRequests /\ ServiceRequest(t)
    \/ \E t \in ServiceThreads : ServiceStep(t)
    \/ \E t \in Threads : HelperStep(t)

Spec == Init /\ [][Next]_vars

\* Pose callbacks alone, overlapping as the subscription threads allow.
NoPoseRunning == \A t \in PoseThreads : pc[t] = "idle"
NextPoses ==
    \/ Len(poses) < MaxOverlappingPoses /\ PoseDelivery
    \/ \E t \in PoseThreads : PoseStep(t)
    \/ \E t \in PoseThreads : HelperStep(t)

SpecPoses == Init /\ [][NextPoses]_vars

\* Pose callbacks alone, each delivered after the one before it returned.
NextSerial ==
    \/ Len(poses) < MaxPoses /\ NoPoseRunning /\ PoseDelivery
    \/ \E t \in PoseThreads : PoseStep(t)
    \/ \E t \in PoseThreads : HelperStep(t)

SpecSerial == Init /\ [][NextSerial]_vars

\* The services alone, with a registry whose values change.
NextServices ==
    \/ \E t \in ServiceThreads : nRequests < MaxRequests /\ ServiceRequest(t)
    \/ \E t \in ServiceThreads : ServiceStep(t)
    \/ \E t \in ServiceThreads : HelperStep(t)
    \/ RegistryChange

SpecServices == Init /\ [][NextServices]_vars

\* The services that list controls, with a registry whose values are any
\* and stay as they are.
NextListing ==
    \/ \E t \in ServiceThreads : nRequests < MaxRequests /\ ServiceRequest(t)
    \/ \E t \in ServiceThreads : ServiceStep(t)
    \/ \E t \in ServiceThreads : HelperStep(t)

SpecListing == InitAnyRegistry /\ [][NextListing]_vars

\* Pose callbacks alone, with the messages that are received while the
\* callback of their subscription runs.
Received ==
    Len(poses) + Len(inbox["pose"]) + Len(inbox["odom"]) + Len(inbox["amcl_pose"])
NextQueued ==
    \/ Received < MaxQueuedPoses /\ PoseDelivery
    \/ \E t \in PoseThreads, m \in SUBSET Zones :
          Received < MaxQueuedPoses /\ PoseQueued(t, m)
    \/ \E t \in PoseThreads : PoseTaken(t)
    \/ \E t \in PoseThreads : PoseStep(t)
    \/ \E t \in PoseThreads : HelperStep(t)

SpecQueued == Init /\ [][NextQueued]_vars

\* The node under fair scheduling: a thread that can take a step takes one,
\* a thread that waits for the lock gets it when it is free again and
\* again, and every call to the registry returns or raises (the steps from
\* "l58" and "l98" are steps of the waiting thread).
ThreadStep(t) == PoseStep(t) \/ ServiceStep(t) \/ HelperStep(t)
NextFair ==
    \/ Len(poses) < MaxFairPoses /\ PoseDelivery
    \/ \E t \in ServiceThreads : nRequests < MaxFairRequests /\ ServiceRequest(t)
    \/ \E t \in Threads : ThreadStep(t)
Fairness ==
    \A t \in Threads : WF_vars(ThreadStep(t)) /\ SF_vars(HldAcquire(t))

SpecFair == Init /\ [][NextFair]_vars /\ Fairness

\* localize_in_zone alone.
NextLocalize ==
    \/ \E t \in ServiceThreads, name \in LocalizeNames :
          nRequests < MaxLocalizeRequests /\ LocalizeRequest(t, name)
    \/ \E t \in ServiceThreads : LocalizeReturns(t)
    \/ \E t \in ServiceThreads : LocalizeFails(t)

SpecLocalize == Init /\ [][NextLocalize]_vars

\* ======================================================== properties
\* Events of pose k, by action and zone.
Published(k, a, z) ==
    Cardinality({i \in DOMAIN eventLog :
        eventLog[i].pose = k /\ eventLog[i].action = a /\ eventLog[i].zone = z})

\* Pose k published one EXIT per zone of prev - cur, one ENTER per zone of
\* cur - prev, and nothing else.
DiffPublished(k, prev, cur) ==
    \A z \in Zones :
        /\ Published(k, "EXIT", z) = (IF z \in prev \ cur THEN 1 ELSE 0)
        /\ Published(k, "ENTER", z) = (IF z \in cur \ prev THEN 1 ELSE 0)

\* Pose k was processed with a non-empty membership and its callback returned.
Completed(k) == poses[k] # {} /\ poseStatus[k] = "done"

\* C1: every pose with a non-empty membership whose callback returned
\* published exactly one EXIT for each zone of (current_zones it read at line
\* 76) - membership, exactly one ENTER for each zone of membership - (that
\* current_zones), and no other event.
C1_TransitionDiff ==
    \A k \in DOMAIN poses : Completed(k) => DiffPublished(k, oldCurrent[k], poses[k])

\* C2: the delivery of a pose whose membership is empty changes neither
\* current_zones nor previous_zones, publishes nothing, and leaves its thread
\* where it was, so nothing is done for that pose later either.
C2_EmptyPoseIsNoOp ==
    [][(Len(poses') = Len(poses) + 1 /\ poses'[Len(poses')] = {})
         => /\ current_zones' = current_zones
            /\ previous_zones' = previous_zones
            /\ eventLog' = eventLog
            /\ pc' = pc
            /\ poseOf' = poseOf]_vars

C2_Witness ==
    \E k \in DOMAIN poses :
        poses[k] = {} /\ poseStatus[k] = "done" /\ current_zones # {} /\ k > 1

\* C3: among the events of one pose no ENTER is followed by an EXIT.
C3_ExitBeforeEnter ==
    \A i, j \in DOMAIN eventLog :
        (i < j /\ eventLog[i].pose = eventLog[j].pose /\ eventLog[i].action = "ENTER")
            => eventLog[j].action = "ENTER"

C3_Witness ==
    \E i, j \in DOMAIN eventLog :
        /\ i < j
        /\ eventLog[i].pose = eventLog[j].pose
        /\ eventLog[i].action = "EXIT"
        /\ eventLog[j].action = "ENTER"

\* Pose k carries the first non-empty membership observed after start.
FirstObserved(k) ==
    /\ poses[k] # {}
    /\ poseStatus[k] # "dropped"
    /\ \A j \in 1..(k - 1) : poses[j] = {} \/ poseStatus[j] = "dropped"

\* C4: the pose with the first non-empty membership after start, once its
\* callback returned, published exactly one ENTER for every zone of that
\* membership and no EXIT.
C4_FirstPoseEnters ==
    \A k \in DOMAIN poses :
        (FirstObserved(k) /\ poseStatus[k] = "done") => DiffPublished(k, {}, poses[k])

\* The poses before pose k that wrote the state: non-empty membership, transformed.
KeptBefore(k) == {j \in 1..(k - 1) : poses[j] # {} /\ poseStatus[j] # "dropped"}
SetMax(S) == CHOOSE x \in S : \A y \in S : y <= x
\* The membership of the last such pose before pose k: current_zones as pose k
\* finds it when the poses with an empty membership are left out.
RefBefore(k) == IF KeptBefore(k) = {} THEN {} ELSE poses[SetMax(KeptBefore(k))]

\* C5: when pose callbacks do not overlap, the state and the events are those
\* of the pose sequence with its empty memberships removed: between callbacks
\* current_zones is the last non-empty membership and previous_zones the one
\* before it, every pose whose callback returned published the difference to
\* the last non-empty membership before it, a pose with an empty membership
\* published nothing, and the events are in the order of the poses.
C5_EmptyPosesInvisible ==
    /\ NoPoseRunning =>
          LET n == Len(poses) + 1 IN
          /\ current_zones = RefBefore(n)
          /\ previous_zones =
                (IF KeptBefore(n) = {} THEN {} ELSE RefBefore(SetMax(KeptBefore(n))))
    /\ \A k \in DOMAIN poses :
          /\ Completed(k) => DiffPublished(k, RefBefore(k), poses[k])
          /\ poses[k] = {} => \A i \in DOMAIN eventLog : eventLog[i].pose # k
    /\ \A i, j \in DOMAIN eventLog : i < j => eventLog[i].pose <= eventLog[j].pose

\* {A,B}, then {}, then {B}: the last pose published EXIT(A) alone.
C5_Witness ==
    /\ poses = <<{"A", "B"}, {}, {"B"}>>
    /\ poseStatus = <<"done", "done", "done">>
    /\ NoPoseRunning
    /\ current_zones = {"B"}
    /\ previous_zones = {"A", "B"}
    /\ \E i \in DOMAIN eventLog :
          eventLog[i].pose = 3 /\ eventLog[i].action = "EXIT" /\ eventLog[i].zone = "A"

\* Every delivered pose was handled to its end without an exception.
AllReturned ==
    /\ NoPoseRunning
    /\ \A k \in DOMAIN poses : poseStatus[k] = "done"
\* The orders in which the poses with a non-empty membership can be processed
\* one after the other.
NonEmptyPoses == {k \in DOMAIN poses : poses[k] # {}}
SerialOrders ==
    {f \in [1..Cardinality(NonEmptyPoses) -> NonEmptyPoses] :
        \A i, j \in DOMAIN f : i # j => f[i] # f[j]}
\* Events with action a and zone z that processing in order f publishes.
SerialPublished(f, a, z) ==
    Cardinality({i \in DOMAIN f :
        LET before == IF i = 1 THEN {} ELSE poses[f[i - 1]]
            after == poses[f[i]]
        IN  z \in (IF a = "EXIT" THEN before \ after ELSE after \ before)})
LogPublished(a, z) ==
    Cardinality({i \in DOMAIN eventLog : eventLog[i].action = a /\ eventLog[i].zone = z})

\* C6: once every callback has returned, the published events are those of
\* some serial processing order of the delivered poses.
C6_Serializable ==
    AllReturned =>
        \E f \in SerialOrders :
            \A a \in {"EXIT", "ENTER"}, z \in Zones :
                LogPublished(a, z) = SerialPublished(f, a, z)
\* Thread t is in the body of handle_list_devices, from the construction of
\* the cache to the return of the response.
InHld(t) == pc[t] \in {"l56", "l58"}

\* get_device_info calls of thread t's latest get_devices_in_zone request
\* made for controlId c.
CallsFor(t, c) ==
    Cardinality({i \in DOMAIN listed[t].calls : listed[t].calls[i].controlId = c})

\* C7: within one invocation of handle_list_devices no two get_device_info
\* calls are made for the same controlId.
C7_OncePerControlId ==
    \A t \in Threads : \A i, j \in DOMAIN calls[t] :
        i # j => calls[t][i].controlId # calls[t][j].controlId

\* An invocation at line 68 for a zone that repeats a controlId.
C7_Witness ==
    \E t \in Threads :
        /\ pc[t] = "l56"
        /\ idx[t] > Len(ZoneControlsGet(req_zone[t]))
        /\ calls[t] # <<>>
        /\ \E i, j \in DOMAIN ZoneControlsGet(req_zone[t]) :
              /\ i < j
              /\ ZoneControlsGet(req_zone[t])[i].controlId =
                    ZoneControlsGet(req_zone[t])[j].controlId

\* t and u served get_devices_in_zone requests for the same zone that were in
\* progress together, and both have answered.
PairAnswered(t, u) ==
    /\ t # u
    /\ u \in listed[t].with
    /\ t \in listed[u].with
    /\ listed[t].zone = listed[u].zone
    /\ pc[t] = "idle" /\ outcome[t] = "ok"
    /\ pc[u] = "idle" /\ outcome[u] = "ok"

\* C8, as claimed: two concurrent get_devices_in_zone calls for one zone make
\* at most one get_device_info call per controlId between them.
C8_OncePerPair ==
    \A t, u \in ServiceThreads : PairAnswered(t, u) =>
        \A c \in ControlIds : CallsFor(t, c) + CallsFor(u, c) <= 1

\* C8, amended: each of the two calls makes at most one get_device_info call
\* per controlId, so the pair makes at most two.
C8_OncePerCallOfPair ==
    \A t, u \in ServiceThreads : PairAnswered(t, u) =>
        \A c \in ControlIds : CallsFor(t, c) + CallsFor(u, c) <= 2

C8_Witness ==
    \E t, u \in ServiceThreads :
        /\ PairAnswered(t, u)
        /\ \E c \in ControlIds : CallsFor(t, c) = 1 /\ CallsFor(u, c) = 1

\* C9: a thread in the body of handle_list_devices owns the lock, and no
\* other thread is in the body at the same time.
C9_MutualExclusion ==
    \A t \in Threads : InHld(t) =>
        /\ list_devices_lock.owner = t
        /\ \A u \in Threads \ {t} : ~InHld(u)

\* A pose callback waits for get_device_info inside the body while a service
\* request for another zone waits for the lock.
C9_Witness ==
    \E t \in PoseThreads, u \in ServiceThreads :
        /\ pc[t] = "l58"
        /\ pc[u] = "l53"
        /\ op[u] = "list"
        /\ req_zone[u] # req_zone[t]

\* C10: every numVal in zcs was reported by a get_device_info call of the
\* same invocation.
C10_FreshValues ==
    \A t \in Threads : \A i \in DOMAIN zcs[t] :
        \E j \in DOMAIN calls[t] :
            /\ calls[t][j].status = "ok"
            /\ zcs[t][i].controlId \in DOMAIN calls[t][j].controls
            /\ calls[t][j].controls[zcs[t][i].controlId] = zcs[t][i].numVal

\* An invocation holds a value for a control that differs from the one an
\* earlier, answered invocation for the same zone had fetched.
C10_Witness ==
    \E t, u \in ServiceThreads :
        /\ t # u
        /\ InHld(t)
        /\ op[t] = "list"
        /\ pc[u] = "idle" /\ outcome[u] = "ok"
        /\ listed[u].zone = req_zone[t]
        /\ \E i \in DOMAIN zcs[t], j \in DOMAIN listed[u].calls :
              /\ listed[u].calls[j].status = "ok"
              /\ zcs[t][i].controlId \in DOMAIN listed[u].calls[j].controls
              /\ listed[u].calls[j].controls[zcs[t][i].controlId] # zcs[t][i].numVal

\* Thread t's latest request was a get_devices_in_zone and it has ended.
ListEnded(t) == pc[t] = "idle" /\ listed[t].zone # "none"
LastCall(log) == log[Len(log)]
\* The last get_device_info call of the log raised.
RegistryFailed(log) == log # <<>> /\ LastCall(log).status = "failed"
\* The last get_device_info call of the log answered without the controlId
\* it was made for.
ControlUnreported(log) ==
    /\ log # <<>>
    /\ LastCall(log).status = "ok"
    /\ LastCall(log).controlId \notin DOMAIN LastCall(log).controls

\* What C11 says of every invocation, whatever ends a request with an error:
\* the lock is owned only inside the body, the body starts with an empty
\* cache, an invocation goes on only after answered calls and waits only for
\* the call it made last, and a failed call is the last call of its request.
C11_Common ==
    /\ \A t \in Threads : list_devices_lock.owner = t => InHld(t)
    /\ \A t \in Threads : (pc[t] = "l56" /\ idx[t] = 1) => control_cache[t] = EmptyCache
    /\ \A t \in Threads : \A i \in DOMAIN calls[t] :
          /\ calls[t][i].status # "failed"
          /\ calls[t][i].status = "pending" => (i = Len(calls[t]) /\ pc[t] = "l58")
    /\ \A t \in ServiceThreads : \A i \in DOMAIN listed[t].calls :
          listed[t].calls[i].status = "failed" => i = Len(listed[t].calls)

\* C11, as claimed: a get_devices_in_zone request ends as failed exactly when
\* its last get_device_info call failed, so a request whose own calls all
\* succeed succeeds, whatever happened to the requests before it.
C11_FailsOnlyOnRegistryFailure ==
    /\ C11_Common
    /\ \A t \in ServiceThreads : ListEnded(t) =>
          (outcome[t] = "error" <=> RegistryFailed(listed[t].calls))

\* C11, amended: a request also ends as failed when a get_device_info call
\* answers without the controlId it was made for.
C11_FailurePropagates ==
    /\ C11_Common
    /\ \A t \in ServiceThreads : ListEnded(t) =>
          (outcome[t] = "error" <=>
              (RegistryFailed(listed[t].calls) \/ ControlUnreported(listed[t].calls)))

\* A request failed on a registry failure and released the lock; a later
\* request for the same zone holds the lock and has all its answers.
C11_Witness ==
    \E t, u \in ServiceThreads :
        /\ ListEnded(u)
        /\ outcome[u] = "error"
        /\ RegistryFailed(listed[u].calls)
        /\ op[t] = "list"
        /\ u \notin listed[t].with
        /\ req_zone[t] = listed[u].zone
        /\ pc[t] = "l56"
        /\ idx[t] > Len(ZoneControlsGet(req_zone[t]))
        /\ calls[t] # <<>>
        /\ list_devices_lock.owner = t

\* The deviceIds the zone-controls file configures for zone z.
ZoneDeviceIds(z) ==
    {ZoneControlsGet(z)[i].deviceId : i \in DOMAIN ZoneControlsGet(z)}
\* Location l holds a device of zone z.
SharesDevice(l, z) == LocationDevices(l) \cap ZoneDeviceIds(z) # {}
\* The position of location l in the enumeration of the registry.
LocationIndex(l) == CHOOSE k \in DOMAIN Locations : Locations[k] = l

\* C12: the locations of every published event are registry locations that
\* hold a device of the event's zone, every such location is among them,
\* none twice, and they are in the order of the registry.
C12_MatchedLocationsExact ==
    \A i \in DOMAIN eventLog :
        LET locs == eventLog[i].peac_locations
            z == eventLog[i].zone
        IN  /\ \A j \in DOMAIN locs :
                  /\ \E k \in DOMAIN Locations : Locations[k] = locs[j]
                  /\ SharesDevice(locs[j], z)
            /\ \A k \in DOMAIN Locations :
                  SharesDevice(Locations[k], z) =>
                      \E j \in DOMAIN locs : locs[j] = Locations[k]
            /\ \A j1, j2 \in DOMAIN locs :
                  j1 < j2 => LocationIndex(locs[j1]) < LocationIndex(locs[j2])

\* One event carries L1 and L3 without L2, which holds no device of the
\* zone, and another event of the same pose carries L3 alone.
C12_Witness ==
    \E i, j \in DOMAIN eventLog :
        /\ eventLog[i].peac_locations = <<"L1", "L3">>
        /\ eventLog[j].peac_locations = <<"L3">>
        /\ eventLog[i].pose = eventLog[j].pose

\* What a localize_in_zone request for a zone or for a name that is neither
\* a zone nor the sentinel did: one polygon request with the zone's vertices
\* and frame and no global request; no request at all and a failed call.
LocalizeZoneOrUnknown(t, sentinel) ==
    LET r == localized[t] IN
    /\ r.zone \in Zones => r.sent = <<PolygonRequest(r.zone)>>
    /\ r.zone \notin Zones \cup {sentinel, ""} =>
          (r.sent = <<>> /\ pc[t] = "idle" /\ outcome[t] = "error")

RegistryCallPending(u) == pc[u] \in {"l58", "l98"}
\* The callback of subscription t cannot go on before a registry call
\* returns: its own, or the one made by the thread that owns the lock it
\* waits for.
StalledByRegistry(t) ==
    \/ RegistryCallPending(t)
    \/ /\ pc[t] = "l53"
       /\ \E u \in Threads \ {t} :
             list_devices_lock.owner = u /\ RegistryCallPending(u)

\* C14: no pose observation that was received waits for a callback that
\* itself waits for a registry call to return, so its membership and the
\* update of current_zones and previous_zones do not depend on that return.
C14_NoStallBehindRegistry ==
    \A t \in PoseThreads : inbox[t] # <<>> => ~StalledByRegistry(t)

\* Pose k could not be transformed to the map frame.
Dropped(k) == poseStatus[k] = "dropped"

\* C15: the step that receives a pose transformPose fails on changes neither
\* current_zones nor previous_zones, publishes nothing and leaves every
\* thread where it was; no event is ever published for that pose; and every
\* later pose whose callback returns publishes the difference to the last
\* non-empty membership that was transformed before it.
C15_UntransformedDropped ==
    /\ [][(Len(poses') = Len(poses) + 1 /\ poseStatus'[Len(poses')] = "dropped")
            => /\ current_zones' = current_zones
               /\ previous_zones' = previous_zones
               /\ eventLog' = eventLog
               /\ pc' = pc
               /\ poseOf' = poseOf]_vars
    /\ [](\A k \in DOMAIN poses : Dropped(k) =>
            /\ \A i \in DOMAIN eventLog : eventLog[i].pose # k
            /\ \A j \in DOMAIN poses :
                  (j > k /\ Completed(j)) => DiffPublished(j, RefBefore(j), poses[j]))

\* {A}, then a pose inside B that could not be transformed, then {A,B}: the
\* last pose published ENTER(B) and found current_zones = {A}.
C15_Witness ==
    /\ poses = <<{"A"}, {"B"}, {"A", "B"}>>
    /\ poseStatus = <<"done", "dropped", "done">>
    /\ oldCurrent[3] = {"A"}
    /\ Published(3, "ENTER", "B") = 1
    /\ NoPoseRunning

\* C16: the controls of an invocation are those of the zone's descriptors,
\* in the order of the configuration, one per descriptor once the loop is
\* through, and the numVal of each is the value the registry holds for the
\* descriptor's own deviceId and controlId.
C16_OwnDeviceValues ==
    \A t \in Threads : InHld(t) =>
        LET cfg == ZoneControlsGet(req_zone[t]) IN
        /\ Len(zcs[t]) <= Len(cfg)
        /\ (pc[t] = "l56" /\ idx[t] > Len(cfg)) => Len(zcs[t]) = Len(cfg)
        /\ \A i \in DOMAIN zcs[t] :
              /\ zcs[t][i].zone = req_zone[t]
              /\ zcs[t][i].deviceId = cfg[i].deviceId
              /\ zcs[t][i].controlId = cfg[i].controlId
              /\ zcs[t][i].name = cfg[i].control
              /\ zcs[t][i].numVal = registry[cfg[i].deviceId][cfg[i].controlId]

\* No callback ended on a registry call that raised.
NoRegistryFailure == \A k \in DOMAIN poses : poseStatus[k] # "failed"
\* No callback ended with an exception.
NoFailure == \A k \in DOMAIN poses : poseStatus[k] \notin {"failed", "keyerror"}
\* The published events of zone z, in order.
ZoneEvents(z) == SelectSeq(eventLog, LAMBDA e : e.zone = z)
\* The zones whose latest event is an ENTER.
LastEntered ==
    {z \in Zones : ZoneEvents(z) # <<>> /\ ZoneEvents(z)[Len(ZoneEvents(z))].action = "ENTER"}

\* The events of every zone are ENTER, EXIT, ENTER, ... in turn, and between
\* callbacks the zones whose latest event is ENTER are those of
\* current_zones.
EventsAlternate ==
    /\ \A z \in Zones : \A i \in DOMAIN ZoneEvents(z) :
          ZoneEvents(z)[i].action = (IF i % 2 = 1 THEN "ENTER" ELSE "EXIT")
    /\ NoPoseRunning => LastEntered = current_zones

Failed(k) == poseStatus[k] \in {"failed", "keyerror"}
\* Events that pose k published.
PublishedBy(k) == Cardinality({i \in DOMAIN eventLog : eventLog[i].pose = k})

\* C18: the step on which an emission fails leaves current_zones,
\* previous_zones and the event log as they are, with current_zones the
\* membership of the pose and previous_zones the current_zones it had found;
\* the pose has then published no event outside its difference, none twice,
\* and fewer than the difference holds; and every later pose whose callback
\* returns publishes exactly its difference to the membership of the pose
\* before it, failed or not.
C18_CommittedBeforeEmission ==
    /\ [][\A k \in DOMAIN poses : (poseStatus[k] = "running" /\ Failed(k)') =>
            /\ current_zones' = current_zones
            /\ previous_zones' = previous_zones
            /\ eventLog' = eventLog
            /\ current_zones = poses[k]
            /\ previous_zones = oldCurrent[k]]_vars
    /\ [](\A k \in DOMAIN poses : Failed(k) =>
            /\ \A z \in Zones :
                  /\ Published(k, "EXIT", z) <= (IF z \in oldCurrent[k] \ poses[k] THEN 1 ELSE 0)
                  /\ Published(k, "ENTER", z) <= (IF z \in poses[k] \ oldCurrent[k] THEN 1 ELSE 0)
            /\ PublishedBy(k) <
                  Cardinality(oldCurrent[k] \ poses[k]) + Cardinality(poses[k] \ oldCurrent[k])
            /\ \A j \in DOMAIN poses :
                  (j > k /\ Completed(j)) =>
                      /\ oldCurrent[j] = RefBefore(j)
                      /\ DiffPublished(j, RefBefore(j), poses[j]))

\* {A}, then {B} whose EXIT(A) was published and whose ENTER(B) failed, then
\* {A,B}: the last pose published ENTER(A) alone and ENTER(B) never appeared.
C18_Witness ==
    /\ poses = <<{"A"}, {"B"}, {"A", "B"}>>
    /\ poseStatus = <<"done", "failed", "done">>
    /\ Published(2, "EXIT", "A") = 1
    /\ Published(3, "ENTER", "A") = 1
    /\ LogPublished("ENTER", "B") = 0
    /\ current_zones = {"A", "B"}
    /\ previous_zones = {"B"}

\* Thread t waits at the with statement of handle_list_devices.
WaitsForLock(t) == pc[t] = "l53"

\* C19: a thread that waits for the lock does not own it, the lock is owned
\* only inside the body of handle_list_devices and never twice over, and
\* under fair scheduling with registry calls that return or raise every
\* thread that waits for the lock comes to own it and the lock, once owned,
\* comes to be free again.
C19_LockProgress ==
    /\ [](\A t \in Threads : WaitsForLock(t) => list_devices_lock.owner # t)
    /\ [](\A t \in Threads : list_devices_lock.owner = t =>
            (InHld(t) /\ list_devices_lock.count = 1))
    /\ \A t \in Threads : WaitsForLock(t) ~> (list_devices_lock.owner = t)
    /\ (list_devices_lock.owner # NoThread) ~> (list_devices_lock.owner = NoThread)

\* A get_zone_locations request waits for the lock while a pose callback
\* owns it and waits for get_device_info.
C19_Witness ==
    \E t \in ServiceThreads, u \in PoseThreads :
        /\ WaitsForLock(t)
        /\ op[t] = "zoneloc"
        /\ list_devices_lock.owner = u
        /\ pc[u] = "l58"

====
